---- MODULE Spec2Model ----
(***************************************************************************)
(* Mergington High School API (src/src/app.py): the activity registry, the *)
(* teacher session registry, the two JSON files of the data directory and  *)
(* the five request handlers, handled one request at a time.               *)
(***************************************************************************)
EXTENDS Integers, Sequences, FiniteSets, TLC

(* ------------------------------ bounds -------------------------------- *)

\* how many distinct student emails requests may carry
NumEmails == 2

EmailPool == <<"a@x.edu", "new@student.edu", "c@x.edu", "d@x.edu">>

Emails == {EmailPool[i] : i \in 1..NumEmails}

\* the token strings that exist: what uuid4 may produce and what a client
\* may present
Tokens == {"tok1", "tok2"}

\* the activity names of the catalog file, and one name that is not in it
CatalogNames == {"Chess Club", "Art Club"}
UnknownNames == {"Robotics"}
RequestNames == CatalogNames \cup UnknownNames

\* Python's None (an absent header, an absent payload field, dict.get's default)
None == "<None>"
\* a field that does not apply to the request recorded
NA == "<n/a>"

Usernames == {"ms1", "mr2"}
Passwords == {"pass123", "pw2"}
\* what payload.get("username") / payload.get("password") may yield
PayloadUsernames == {None, ""} \cup Usernames
PayloadPasswords == {None, ""} \cup Passwords
\* what the X-Admin-Token header may be: absent, empty, or any token string
Headers == {None, ""} \cup Tokens

(* ------------------------- Python primitives -------------------------- *)

\* Python truthiness of an optional string: None and "" are falsy
Falsy(v) == v = None \/ v = ""

\* x in list
InList(x, list) == \E i \in 1..Len(list) : list[i] = x

\* list.append(x)
list_append(list, x) == Append(list, x)

\* mutant: every occurrence of x is dropped
list_remove_all(list, x) == SelectSeq(list, LAMBDA y : y # x)

\* mutant: pop(0) instead of remove(x)
list_remove_head(list, x) == SubSeq(list, 2, Len(list))

\* list.remove(x): drops the first occurrence of x (x is in the list)
list_remove(list, x) ==
    LET i == CHOOSE k \in 1..Len(list) :
                 list[k] = x /\ \A j \in 1..(k - 1) : list[j] # x
    IN  [k \in 1..(Len(list) - 1) |-> IF k < i THEN list[k] ELSE list[k + 1]]

\* duplicate-free sequences over S
RECURSIVE SeqsNoDup(_)
SeqsNoDup(S) ==
    {<<>>} \cup UNION {{<<x>> \o s : s \in SeqsNoDup(S \ {x})} : x \in S}

(* --------------------------- activity record -------------------------- *)

\* an activity record: its "participants" key may be missing from the file
\* (the handlers read it with .get("participants", []) and setdefault)
ActivityRecord(has, list) == [hasParticipants |-> has, participants |-> list]

\* activity.get("participants", [])
get_participants(activity) ==
    IF activity.hasParticipants THEN activity.participants ELSE <<>>

ActivityRecords ==
    {ActivityRecord(TRUE, p) : p \in SeqsNoDup(Emails)}
        \cup {ActivityRecord(FALSE, <<>>)}

(* ------------------------ persistence accessors ----------------------- *)

\* json.dump: the document written for a registry, as its set of
\* key/value members
json_dump(registry) == {<<n, registry[n]>> : n \in DOMAIN registry}

\* json.load: the mapping a document denotes
json_load(doc) ==
    [n \in {m[1] : m \in doc} |-> (CHOOSE m \in doc : m[1] = n)[2]]

\* the state of data/activities.json
FileOf(doc) == [exists |-> TRUE, doc |-> doc]
NoFile == [exists |-> FALSE, doc |-> {}]

load_activities(f) == IF f.exists THEN json_load(f.doc) ELSE <<>>

\* the state of data/teachers.json
Teacher(u, p) == [username |-> u, password |-> p]
NoTeachersFile == [exists |-> FALSE, teachers |-> <<>>]
TeachersFileOf(list) == [exists |-> TRUE, teachers |-> list]

\* the credential files considered: none, or two teachers after a record
\* whose username key is missing (t.get("username") is None)
TeachersFiles ==
    { NoTeachersFile,
      TeachersFileOf(<<Teacher(None, "pw2"), Teacher("ms1", "pass123"),
                       Teacher("mr2", "pw2")>>) }

\* the catalog files considered: none, or any catalog over CatalogNames
CatalogFiles ==
    {NoFile} \cup {FileOf(json_dump(r)) : r \in [CatalogNames -> ActivityRecords]}

(* -------------------------------- state ------------------------------- *)
VARIABLES
    activities,        \* the in-memory registry: name -> activity record
    teacher_sessions,  \* _teacher_sessions: token -> username
    activitiesFile,    \* content of ACTIVITIES_FILE
    teachersFile,      \* content of TEACHERS_FILE
    workers,           \* the requests in progress, one per worker thread
    \* history, written by the handlers and read by none of their conditions:
    last,              \* the request handled last and its response
    before,            \* the registries and the files when that request arrived
    issued,            \* token -> username, every token uuid4 has produced
                       \* and a login has returned
    loaded_names,      \* the activity names load_activities gave at startup
    teachers_at_start, \* content of TEACHERS_FILE when the process started
    roundtrip          \* a signup directly followed by its unregister

vars ==
    <<activities, teacher_sessions, activitiesFile, teachersFile, workers,
      last, before, issued, loaded_names, teachers_at_start, roundtrip>>

state == <<activities, teacher_sessions, activitiesFile, teachersFile>>

Snapshot ==
    [activities |-> activities,
     teacher_sessions |-> teacher_sessions,
     activitiesFile |-> activitiesFile,
     teachersFile |-> teachersFile]

Request(op, token, name, email, username, password) ==
    [op |-> op, token |-> token, name |-> name, email |-> email,
     username |-> username, password |-> password]

\* body: the registry returned by GET /activities, the token returned by a
\* successful login, NA for a message, an error detail or a redirect;
\* wrote: whether the handler called save_activities
Response(req, status, body, wrote) ==
    [op |-> req.op, token |-> req.token, name |-> req.name, email |-> req.email,
     username |-> req.username, password |-> req.password,
     status |-> status, body |-> body, wrote |-> wrote]

\* roundtrip: "idle"; "signed" after a signup answered 200, with the registry
\* it found; "undone" when the next request is the unregister of the same
\* email from the same activity, answered 200
Idle == [phase |-> "idle", name |-> NA, email |-> NA, registry |-> <<>>]

RoundTripAfter(resp) ==
    IF resp.op = "signup" /\ resp.status = 200
    THEN [phase |-> "signed", name |-> resp.name, email |-> resp.email,
          registry |-> activities]
    ELSE IF /\ resp.op = "unregister" /\ resp.status = 200
            /\ roundtrip.phase = "signed"
            /\ roundtrip.name = resp.name /\ roundtrip.email = resp.email
    THEN [roundtrip EXCEPT !.phase = "undone"]
    ELSE Idle

\* the worker threads that may run a handler at the same time
Workers == {"w1", "w2", "w3"}

\* a worker thread: where it is in its handler (pc), the request, the
\* status answered, the document json.dump produced (buffer) and, as
\* history, how often the email was in the list when the worker changed it
WorkerAt(pc, op, name, email, status, buffer, copies) ==
    [pc |-> pc, op |-> op, name |-> name, email |-> email, status |-> status,
     buffer |-> buffer, copies |-> copies]

\* a worker thread that has not been given a request
IdleWorker == WorkerAt("idle", NA, NA, NA, 0, {}, 0)

Init ==
    /\ activitiesFile \in CatalogFiles
    /\ teachersFile \in TeachersFiles
    /\ activities = load_activities(activitiesFile)
    /\ teacher_sessions = <<>>
    /\ last = Response(Request("start", NA, NA, NA, NA, NA), 0, NA, FALSE)
    /\ before = [activities |-> load_activities(activitiesFile),
                 teacher_sessions |-> <<>>,
                 activitiesFile |-> activitiesFile,
                 teachersFile |-> teachersFile]
    /\ issued = <<>>
    /\ loaded_names = DOMAIN load_activities(activitiesFile)
    /\ teachers_at_start = teachersFile
    /\ workers = [w \in Workers |-> IdleWorker]
    /\ roundtrip = Idle

(* ------------------------------ handlers ------------------------------ *)

\* mutant: the credential list is read once, when the process starts
load_teachers_cached(f) ==
    IF teachers_at_start.exists THEN teachers_at_start.teachers ELSE <<>>

\* load_teachers: the records of TEACHERS_FILE, none when it is absent
load_teachers(f) == IF f.exists THEN f.teachers ELSE <<>>

\* mutant: the assignment replaces the dict by one holding only the new key
dict_set_replacing(d, k, v) == [x \in {k} |-> v]

\* d[k] = v on a dict
dict_set(d, k, v) == [x \in DOMAIN d \cup {k} |-> IF x = k THEN v ELSE d[x]]

\* str(uuid.uuid4()): a random token; uuid4 values do not repeat, so the
\* values it may return are the token strings not handed out so far (which
\* are the keys of the session registry for as long as the process runs)
uuid4(sessions) == Tokens \ DOMAIN sessions

\* mutant: the password is not compared
credentials_match_username_only(teachers, username, password) ==
    \E i \in 1..Len(teachers) : teachers[i].username = username

\* the loop of admin_login: some record equals both fields
credentials_match(teachers, username, password) ==
    \E i \in 1..Len(teachers) :
        teachers[i].username = username /\ teachers[i].password = password

\* mutant: any non-empty header passes
token_rejected_unless_present(x_admin_token, sessions) == Falsy(x_admin_token)

\* mutant: the session's teacher must still be in the credential file
token_rejected_rechecking(x_admin_token, sessions) ==
    \/ Falsy(x_admin_token)
    \/ x_admin_token \notin DOMAIN sessions
    \/ ~\E i \in 1..Len(load_teachers(teachersFile)) :
            load_teachers(teachersFile)[i].username = sessions[x_admin_token]

\* the authorization check of signup and unregister
token_rejected(x_admin_token, sessions) ==
    Falsy(x_admin_token) \/ x_admin_token \notin DOMAIN sessions

\* mutant: the duplicate check never fires
already_signed_up_never(activity, email) == FALSE

\* email in activity.get("participants", [])
already_signed_up(activity, email) == InList(email, get_participants(activity))

\* mutant: every record shares one participants list, so the append shows in
\* all of them
registry_append_shared(registry, activity_name, email) ==
    [n \in DOMAIN registry |->
        ActivityRecord(TRUE, list_append(get_participants(registry[n]), email))]

\* activity.setdefault("participants", []).append(email), in the registry
registry_append(registry, activity_name, email) ==
    [registry EXCEPT ![activity_name] =
        ActivityRecord(TRUE, list_append(get_participants(@), email))]

\* mutant: pop() instead of remove(email)
registry_remove_pop(registry, activity_name, email) ==
    [registry EXCEPT ![activity_name] =
        ActivityRecord(TRUE, SubSeq(@.participants, 1, Len(@.participants) - 1))]

\* activity["participants"].remove(email), in the registry
registry_remove(registry, activity_name, email) ==
    [registry EXCEPT ![activity_name] =
        ActivityRecord(TRUE, list_remove(@.participants, email))]

\* mutant: the file is left as it is
save_activities_skipped(registry) == activitiesFile

\* save_activities: the file after the registry is written to it in full
save_activities(registry) == FileOf(json_dump(registry))

\* the history a handler leaves
Record(resp) ==
    /\ last' = resp
    /\ before' = Snapshot
    /\ roundtrip' = RoundTripAfter(resp)
    /\ UNCHANGED <<loaded_names, teachers_at_start, workers>>

\* a response that changes nothing (an HTTPException, a read-only handler)
Reply(req, status, body) ==
    /\ Record(Response(req, status, body, FALSE))
    /\ UNCHANGED <<state, issued>>

\* GET /
root ==
    Reply(Request("root", NA, NA, NA, NA, NA), 307, NA)

\* GET /activities
get_activities ==
    Reply(Request("get_activities", NA, NA, NA, NA, NA), 200, activities)

\* POST /admin/login
admin_login(username, password) ==
    LET req == Request("admin_login", NA, NA, NA, username, password) IN
    IF Falsy(username) \/ Falsy(password)
    THEN Reply(req, 400, NA)
    ELSE IF credentials_match(load_teachers(teachersFile), username, password)
    THEN \E token \in uuid4(issued) :
            /\ teacher_sessions' = dict_set(teacher_sessions, token, username)
            /\ issued' = [t \in DOMAIN issued \cup {token} |->
                            IF t = token THEN username ELSE issued[t]]
            /\ Record(Response(req, 200, token, FALSE))
            /\ UNCHANGED <<activities, activitiesFile, teachersFile>>
    ELSE Reply(req, 401, NA)

\* the mutation of a signup or an unregister: the registry is changed, then
\* written to the file, then 200 is answered
Mutate(req, registry) ==
    /\ activities' = registry
    /\ activitiesFile' = save_activities(registry)
    /\ Record(Response(req, 200, NA, TRUE))
    /\ UNCHANGED <<teacher_sessions, teachersFile, issued>>

\* mutant: the file is rewritten before the duplicate check
signup_saving_first(activity_name, email, x_admin_token) ==
    LET req == Request("signup", x_admin_token, activity_name, email, NA, NA) IN
    IF token_rejected(x_admin_token, teacher_sessions)
    THEN Reply(req, 401, NA)
    ELSE IF activity_name \notin DOMAIN activities
    THEN Reply(req, 404, NA)
    ELSE IF already_signed_up(activities[activity_name], email)
    THEN /\ activitiesFile' = save_activities(activities)
         /\ Record(Response(req, 400, NA, TRUE))
         /\ UNCHANGED <<activities, teacher_sessions, teachersFile, issued>>
    ELSE Mutate(req, registry_append(activities, activity_name, email))

\* mutant: an unknown activity is created (activities.setdefault(name, {}))
signup_creating_activity(activity_name, email, x_admin_token) ==
    LET req == Request("signup", x_admin_token, activity_name, email, NA, NA) IN
    IF token_rejected(x_admin_token, teacher_sessions)
    THEN Reply(req, 401, NA)
    ELSE IF activity_name \notin DOMAIN activities
    THEN Mutate(req, dict_set(activities, activity_name,
                              ActivityRecord(TRUE, <<email>>)))
    ELSE IF already_signed_up(activities[activity_name], email)
    THEN Reply(req, 400, NA)
    ELSE Mutate(req, registry_append(activities, activity_name, email))

\* POST /activities/{activity_name}/signup
signup_for_activity(activity_name, email, x_admin_token) ==
    LET req == Request("signup", x_admin_token, activity_name, email, NA, NA) IN
    IF token_rejected(x_admin_token, teacher_sessions)
    THEN Reply(req, 401, NA)
    ELSE IF activity_name \notin DOMAIN activities
    THEN Reply(req, 404, NA)
    ELSE IF already_signed_up(activities[activity_name], email)
    THEN Reply(req, 400, NA)
    ELSE Mutate(req, registry_append(activities, activity_name, email))

\* mutant: an absent email is skipped without an error (discard, not remove)
unregister_ignoring_absent(activity_name, email, x_admin_token) ==
    LET req == Request("unregister", x_admin_token, activity_name, email, NA, NA) IN
    IF token_rejected(x_admin_token, teacher_sessions)
    THEN Reply(req, 401, NA)
    ELSE IF activity_name \notin DOMAIN activities
    THEN Reply(req, 404, NA)
    ELSE IF ~InList(email, get_participants(activities[activity_name]))
    THEN Mutate(req, activities)
    ELSE Mutate(req, registry_remove(activities, activity_name, email))

\* DELETE /activities/{activity_name}/unregister
unregister_from_activity(activity_name, email, x_admin_token) ==
    LET req == Request("unregister", x_admin_token, activity_name, email, NA, NA) IN
    IF token_rejected(x_admin_token, teacher_sessions)
    THEN Reply(req, 401, NA)
    ELSE IF activity_name \notin DOMAIN activities
    THEN Reply(req, 404, NA)
    ELSE IF ~InList(email, get_participants(activities[activity_name]))
    THEN Reply(req, 400, NA)
    ELSE Mutate(req, registry_remove(activities, activity_name, email))

(* ---------------------------- specification --------------------------- *)

Root == root

GetActivities == get_activities

AdminLogin ==
    \E u \in PayloadUsernames, p \in PayloadPasswords : admin_login(u, p)

SignupOn(names) ==
    \E n \in names, e \in Emails, t \in Headers :
        signup_for_activity(n, e, t)

UnregisterOn(names) ==
    \E n \in names, e \in Emails, t \in Headers :
        unregister_from_activity(n, e, t)

Signup == SignupOn(RequestNames)

Unregister == UnregisterOn(RequestNames)

Next ==
    \/ Root
    \/ GetActivities
    \/ AdminLogin
    \/ Signup
    \/ Unregister

Spec == Init /\ [][Next]_vars

(* ------------------------- one activity in focus ---------------------- *)

\* the specifications below send their signups and unregisters to one
\* activity of the catalog (and to the unknown one); the other activity
\* starts with one participant
FocusNames == {"Chess Club"} \cup UnknownNames

InitFocus ==
    /\ Init
    /\ activitiesFile.exists =>
          load_activities(activitiesFile)["Art Club"] =
              ActivityRecord(TRUE, <<"a@x.edu">>)


(* ------------------------- failing file writes ----------------------- *)

\* ACTIVITIES_FILE after open(..., "w") truncated it and the write stopped:
\* no JSON document (json.load raises on it)
TruncatedFile == [exists |-> TRUE, doc |-> {}, partial |-> TRUE]

\* what save_activities leaves when it raises: open() failed and the file is
\* as it was, or the write failed after open() had truncated the file
failed_save(f) == {f, TruncatedFile}

\* the mutation of a signup or an unregister when save_activities raises:
\* the registry is already changed, the exception is answered 500
MutateSaveFailing(req, registry) ==
    /\ activities' = registry
    /\ activitiesFile' \in failed_save(activitiesFile)
    /\ Record(Response(req, 500, NA, TRUE))
    /\ UNCHANGED <<teacher_sessions, teachersFile, issued>>

\* POST /activities/{activity_name}/signup, save_activities raising
signup_save_failing(activity_name, email, x_admin_token) ==
    LET req == Request("signup", x_admin_token, activity_name, email, NA, NA) IN
    /\ ~token_rejected(x_admin_token, teacher_sessions)
    /\ activity_name \in DOMAIN activities
    /\ ~already_signed_up(activities[activity_name], email)
    /\ MutateSaveFailing(req, registry_append(activities, activity_name, email))

\* DELETE /activities/{activity_name}/unregister, save_activities raising
unregister_save_failing(activity_name, email, x_admin_token) ==
    LET req == Request("unregister", x_admin_token, activity_name, email, NA, NA) IN
    /\ ~token_rejected(x_admin_token, teacher_sessions)
    /\ activity_name \in DOMAIN activities
    /\ InList(email, get_participants(activities[activity_name]))
    /\ MutateSaveFailing(req, registry_remove(activities, activity_name, email))

SignupSaveFails ==
    \E n \in FocusNames, e \in Emails, t \in Headers :
        signup_save_failing(n, e, t)

UnregisterSaveFails ==
    \E n \in FocusNames, e \in Emails, t \in Headers :
        unregister_save_failing(n, e, t)

NextFault ==
    \/ Root
    \/ GetActivities
    \/ AdminLogin
    \/ SignupOn(FocusNames)
    \/ UnregisterOn(FocusNames)
    \/ SignupSaveFails
    \/ UnregisterSaveFails

\* the requests of Spec on one activity of the catalog, with file writes
\* that may fail
SpecFault == InitFocus /\ [][NextFault]_vars

(* ------------------------------- restart ------------------------------ *)

\* mutant: the registry starts empty instead of being loaded
restart_without_load ==
    /\ activities' = <<>>
    /\ teacher_sessions' = <<>>
    /\ loaded_names' = {}
    /\ teachers_at_start' = teachersFile
    /\ last' = Response(Request("restart", NA, NA, NA, NA, NA), 0, NA, FALSE)
    /\ before' = Snapshot
    /\ UNCHANGED <<activitiesFile, teachersFile, issued, workers, roundtrip>>

\* the process is stopped between two requests and started again: the
\* module body runs, activities = load_activities() and
\* _teacher_sessions = {}; the files stay as they are.  (A process killed
\* while save_activities writes leaves no JSON document, load_activities
\* raises at startup and no request is handled again.)
restart ==
    /\ activities' = load_activities(activitiesFile)
    /\ teacher_sessions' = <<>>
    /\ loaded_names' = DOMAIN load_activities(activitiesFile)
    /\ teachers_at_start' = teachersFile
    /\ last' = Response(Request("restart", NA, NA, NA, NA, NA), 0, NA, FALSE)
    /\ before' = Snapshot
    /\ UNCHANGED <<activitiesFile, teachersFile, issued, workers, roundtrip>>

Restart == restart

NextRestart ==
    \/ Root
    \/ GetActivities
    \/ AdminLogin
    \/ SignupOn(FocusNames)
    \/ UnregisterOn(FocusNames)
    \/ Restart

\* the requests of Spec on one activity of the catalog, with restarts
SpecRestart == InitFocus /\ [][NextRestart]_vars

(* ----------------------- credential file edits ------------------------ *)

\* the contents TEACHERS_FILE may be given while the process runs: those of
\* TeachersFiles, mr2 removed, and ms1's password changed
CredentialFiles ==
    TeachersFiles \cup
    { TeachersFileOf(<<Teacher("ms1", "pass123")>>),
      TeachersFileOf(<<Teacher("ms1", "pw2"), Teacher("mr2", "pw2")>>) }

\* someone rewrites or deletes data/teachers.json; the process is not
\* involved (load_teachers is its only access to the file)
edit_teachers(f) ==
    /\ f # teachersFile
    /\ teachersFile' = f
    /\ last' = Response(Request("edit_teachers", NA, NA, NA, NA, NA), 0, NA, FALSE)
    /\ before' = Snapshot
    /\ roundtrip' = Idle
    /\ UNCHANGED <<activities, teacher_sessions, activitiesFile, issued,
                   loaded_names, teachers_at_start, workers>>

EditTeachers == \E f \in CredentialFiles : edit_teachers(f)

NextCredentials ==
    \/ Root
    \/ GetActivities
    \/ AdminLogin
    \/ SignupOn(FocusNames)
    \/ UnregisterOn(FocusNames)
    \/ EditTeachers

\* the requests of Spec on one activity of the catalog, with the credential
\* file edited between requests
SpecCredentials == InitFocus /\ [][NextCredentials]_vars

(* ------------------------ concurrent handlers ------------------------- *)

\* signup_for_activity and unregister_from_activity are sync handlers, run
\* on threadpool workers with no lock around the registry or the file.  A
\* worker takes one request and runs it in the steps begin (token and
\* existence checks, activity = activities[name]), check (membership test),
\* mutate (append / remove on the shared list), serialize (json.dump of the
\* registry as it is then) and write (the file gets that document, 200).

\* list.count(x)
list_count(list, x) == Cardinality({i \in 1..Len(list) : list[i] = x})

\* what a client may send in the X-Admin-Token header here: nothing, or the
\* token of the session
ConcurrentHeaders == {None, "tok1"}

InitConcurrent ==
    /\ activitiesFile \in CatalogFiles
    /\ activitiesFile.exists
    /\ load_activities(activitiesFile)["Art Club"] =
          ActivityRecord(TRUE, <<"a@x.edu">>)
    /\ teachersFile = TeachersFileOf(<<Teacher("ms1", "pass123")>>)
    /\ activities = load_activities(activitiesFile)
    /\ teacher_sessions = [t \in {"tok1"} |-> "ms1"]
    /\ issued = [t \in {"tok1"} |-> "ms1"]
    /\ last = Response(Request("admin_login", NA, NA, NA, "ms1", "pass123"),
                       200, "tok1", FALSE)
    /\ before = [activities |-> load_activities(activitiesFile),
                 teacher_sessions |-> <<>>,
                 activitiesFile |-> activitiesFile,
                 teachersFile |-> teachersFile]
    /\ loaded_names = DOMAIN load_activities(activitiesFile)
    /\ teachers_at_start = teachersFile
    /\ workers = [w \in Workers |-> IdleWorker]
    /\ roundtrip = Idle

\* what no worker step changes
WorkerFrame ==
    UNCHANGED <<teacher_sessions, teachersFile, last, before, issued,
                loaded_names, teachers_at_start, roundtrip>>

\* the worker has answered
Answered(w, status) ==
    [workers EXCEPT ![w] = [@ EXCEPT !.pc = "done", !.status = status]]

\* lines 88-96 and 114-122: the token check, the existence check and the
\* lookup of the activity
worker_begin(w, op, activity_name, email, x_admin_token) ==
    /\ workers[w].pc = "idle"
    /\ workers' =
          [workers EXCEPT ![w] =
              IF token_rejected(x_admin_token, teacher_sessions)
              THEN WorkerAt("done", op, activity_name, email, 401, {}, 0)
              ELSE IF activity_name \notin DOMAIN activities
              THEN WorkerAt("done", op, activity_name, email, 404, {}, 0)
              ELSE WorkerAt("check", op, activity_name, email, 0, {}, 0)]
    /\ UNCHANGED <<activities, activitiesFile>>
    /\ WorkerFrame

\* lines 99-103 and 125-129: the membership test
worker_check(w) ==
    LET me == workers[w]
        rejected ==
            IF me.op = "signup"
            THEN already_signed_up(activities[me.name], me.email)
            ELSE ~InList(me.email, get_participants(activities[me.name]))
    IN  /\ me.pc = "check"
        /\ workers' = IF rejected
                      THEN Answered(w, 400)
                      ELSE [workers EXCEPT ![w] = [@ EXCEPT !.pc = "mutate"]]
        /\ UNCHANGED <<activities, activitiesFile>>
        /\ WorkerFrame

\* line 106: the append; line 132: the remove, which raises ValueError
\* (answered 500) when the email has left the list since the test
worker_mutate(w) ==
    LET me == workers[w]
        list == get_participants(activities[me.name])
        mutated == [workers EXCEPT ![w] =
                       [@ EXCEPT !.pc = "serialize",
                                 !.copies = list_count(list, me.email)]]
    IN  /\ me.pc = "mutate"
        /\ IF me.op = "signup"
           THEN /\ activities' = registry_append(activities, me.name, me.email)
                /\ workers' = mutated
           ELSE IF InList(me.email, list)
           THEN /\ activities' = registry_remove(activities, me.name, me.email)
                /\ workers' = mutated
           ELSE /\ activities' = activities
                /\ workers' = Answered(w, 500)
        /\ UNCHANGED activitiesFile
        /\ WorkerFrame

\* line 41: json.dump(activities, ...) reads the registry as it is now
worker_serialize(w) ==
    /\ workers[w].pc = "serialize"
    /\ workers' = [workers EXCEPT ![w] =
                      [@ EXCEPT !.pc = "write", !.buffer = json_dump(activities)]]
    /\ UNCHANGED <<activities, activitiesFile>>
    /\ WorkerFrame

\* mutant: the document is produced when the file is written
written_file_current(buffer) == FileOf(json_dump(activities))

\* the file once a worker's document is written to it
written_file(buffer) == FileOf(buffer)

\* lines 40-41 and 108/134: the document reaches the file, 200 is answered
worker_write(w) ==
    /\ workers[w].pc = "write"
    /\ activitiesFile' = written_file(workers[w].buffer)
    /\ workers' = Answered(w, 200)
    /\ UNCHANGED activities
    /\ WorkerFrame

WorkerBegin ==
    \E w \in Workers, op \in {"signup", "unregister"}, n \in FocusNames,
       e \in Emails, t \in ConcurrentHeaders :
        worker_begin(w, op, n, e, t)

WorkerCheck == \E w \in Workers : worker_check(w)

WorkerMutate == \E w \in Workers : worker_mutate(w)

WorkerSerialize == \E w \in Workers : worker_serialize(w)

WorkerWrite == \E w \in Workers : worker_write(w)

NextConcurrent ==
    \/ WorkerBegin
    \/ WorkerCheck
    \/ WorkerMutate
    \/ WorkerSerialize
    \/ WorkerWrite

\* up to three signups and unregisters running at the same time, after a
\* login
SpecConcurrent == InitConcurrent /\ [][NextConcurrent]_vars

(* ------------------------------- claims ------------------------------- *)

Mutation == last.op \in {"signup", "unregister"}

\* the request recorded in last carried a token of the session registry
Authorized == last.token \in DOMAIN before.teacher_sessions

Participants(registry, name) == get_participants(registry[name])

Enrolled(registry, name, email) == InList(email, Participants(registry, name))

NothingChanged ==
    /\ activities = before.activities
    /\ teacher_sessions = before.teacher_sessions
    /\ activitiesFile = before.activitiesFile

\* C1: from a catalog that lists no email twice in an activity, every
\* activity's participants list holds each email at most once, after any
\* sequence of requests.
C1_AtMostOnce ==
    \A n \in DOMAIN activities :
        LET p == Participants(activities, n) IN
        \A i, j \in 1..Len(p) : i # j => p[i] # p[j]

\* a signup has just appended to a list that was not empty
C1_Witness ==
    /\ last.op = "signup" /\ last.status = 200
    /\ Len(Participants(before.activities, last.name)) >= 1
    /\ Len(Participants(activities, last.name)) >= 2

\* C2: a signup or unregister whose X-Admin-Token is absent, empty or not a
\* key of the session registry is answered 401, whatever the activity name
\* and the email, and leaves both registries and the file unchanged.
C2_Unauthorized401 ==
    (/\ Mutation
     /\ \/ last.token = None
        \/ last.token = ""
        \/ last.token \notin DOMAIN before.teacher_sessions)
    => /\ last.status = 401
       /\ NothingChanged
       /\ ~last.wrote

\* an unregister of an enrolled email with a token that no login returned,
\* while another token is in the session registry
C2_Witness ==
    /\ last.op = "unregister" /\ last.status = 401
    /\ last.token \in Tokens
    /\ before.teacher_sessions # <<>>
    /\ last.name \in DOMAIN before.activities
    /\ Enrolled(before.activities, last.name, last.email)

\* C3: every token a login has returned stays a key of the session registry
\* mapped to the same username, and a signup or unregister presenting it is
\* never answered 401, whatever was handled in between.
C3_TokenStaysValid ==
    /\ \A t \in DOMAIN issued :
          t \in DOMAIN teacher_sessions /\ teacher_sessions[t] = issued[t]
    /\ \A t \in DOMAIN before.teacher_sessions :
          t \in DOMAIN teacher_sessions
              /\ teacher_sessions[t] = before.teacher_sessions[t]
    /\ (Mutation /\ last.token \in DOMAIN issued) => last.status # 401

\* two logins have succeeded and the token of one of them passes the check
C3_Witness ==
    /\ Cardinality(DOMAIN issued) = 2
    /\ Mutation /\ last.token \in DOMAIN issued
    /\ last.status = 200

C5_DuplicateSignup400 ==
    (/\ last.op = "signup" /\ Authorized
     /\ last.name \in DOMAIN before.activities
     /\ Enrolled(before.activities, last.name, last.email))
    => /\ last.status = 400
       /\ activities = before.activities
       /\ activitiesFile = before.activitiesFile
       /\ ~last.wrote

C5_Witness ==
    /\ last.op = "signup" /\ last.status = 400 /\ Authorized
    /\ Enrolled(before.activities, last.name, last.email)

\* C6: an unregister with a valid token for an existing activity whose list
\* does not hold the email is answered 400 and leaves the list, the rest of
\* the registry and the file unchanged, without a file rewrite.
C6_AbsentUnregister400 ==
    (/\ last.op = "unregister" /\ Authorized
     /\ last.name \in DOMAIN before.activities
     /\ ~Enrolled(before.activities, last.name, last.email))
    => /\ last.status = 400
       /\ activities = before.activities
       /\ activitiesFile = before.activitiesFile
       /\ ~last.wrote

\* the email is absent from a list that holds another email
C6_Witness ==
    /\ last.op = "unregister" /\ last.status = 400 /\ Authorized
    /\ Len(Participants(before.activities, last.name)) >= 1
    /\ ~Enrolled(before.activities, last.name, last.email)

C8_WitnessMutation ==
    /\ Mutation /\ last.status = 200 /\ last.wrote
    /\ activitiesFile # before.activitiesFile

\* C9 as stated: the set of activity names never differs from the one
\* loaded at startup, and a signup or unregister naming an activity outside
\* it is answered 404 without creating it.
C9_UnknownAlways404 ==
    /\ DOMAIN activities = loaded_names
    /\ (Mutation /\ last.name \notin loaded_names) =>
          (last.status = 404 /\ last.name \notin DOMAIN activities)

\* C9 as amended: the set of activity names never differs from the one
\* loaded at startup; a signup or unregister naming an activity outside it
\* is answered 404 when its token is valid and 401 otherwise, and in neither
\* case creates the activity or changes anything.
C9_NamesFixed ==
    /\ DOMAIN activities = loaded_names
    /\ DOMAIN before.activities = loaded_names
    /\ (Mutation /\ last.name \notin loaded_names) =>
          /\ last.status = (IF Authorized THEN 404 ELSE 401)
          /\ last.name \notin DOMAIN activities
          /\ NothingChanged
          /\ ~last.wrote

\* an authorized signup named an activity the catalog does not have
C9_Witness ==
    /\ last.op = "signup" /\ last.status = 404 /\ Authorized
    /\ loaded_names # {}
    /\ last.name \notin loaded_names

\* C10: a login is answered 400 when username or password is absent or
\* empty, otherwise 401 when no teacher record equals both fields, otherwise
\* 200 with a token that was no key of the session registry and is now
\* mapped to the username; 400 and 401 leave the session registry unchanged,
\* and a successful login keeps every earlier token valid.
C10_LoginOutcomes ==
    last.op = "admin_login" =>
        LET missing == \/ last.username = None \/ last.username = ""
                       \/ last.password = None \/ last.password = ""
            teachers == load_teachers(before.teachersFile)
            known == \E i \in 1..Len(teachers) :
                        /\ teachers[i].username = last.username
                        /\ teachers[i].password = last.password
        IN  /\ last.status \in {400, 401, 200}
            /\ last.status = 400 <=> missing
            /\ last.status = 401 <=> (~missing /\ ~known)
            /\ last.status = 200 <=> (~missing /\ known)
            /\ last.status \in {400, 401} =>
                  teacher_sessions = before.teacher_sessions
            /\ last.status = 200 =>
                  /\ last.body \in Tokens
                  /\ last.body \notin DOMAIN before.teacher_sessions
                  /\ DOMAIN teacher_sessions =
                        DOMAIN before.teacher_sessions \cup {last.body}
                  /\ teacher_sessions[last.body] = last.username
                  /\ \A t \in DOMAIN before.teacher_sessions :
                        teacher_sessions[t] = before.teacher_sessions[t]
            /\ activities = before.activities
            /\ activitiesFile = before.activitiesFile

\* a second successful login by a teacher who already holds a token
C10_Witness ==
    /\ last.op = "admin_login" /\ last.status = 200
    /\ \E t \in DOMAIN before.teacher_sessions :
          /\ before.teacher_sessions[t] = last.username
          /\ t # last.body
          /\ t \in DOMAIN teacher_sessions

\* the list without the occurrences of an email
Without(list, email) == SelectSeq(list, LAMBDA x : x # email)

C11_ErrorsApplyNothing ==
    last.status \in {400, 401, 404, 500} => NothingChanged

\* C12: after a restart the session registry is empty, so a token issued
\* before it is answered 401 on signup and unregister, while the registry
\* is reloaded from the file: what GET /activities returns is what it
\* returned before the restart, with the effect of every 200 mutation.
C12_Restart ==
    /\ last.op = "restart" =>
          /\ teacher_sessions = <<>>
          /\ activitiesFile = before.activitiesFile
          /\ activities = load_activities(activitiesFile)
          /\ activities = before.activities
          /\ roundtrip.phase = "signed" =>
                Enrolled(activities, roundtrip.name, roundtrip.email)
    /\ (Mutation /\ last.token \in DOMAIN issued
                 /\ last.token \notin DOMAIN before.teacher_sessions) =>
          (last.status = 401 /\ NothingChanged)
    /\ last.op = "get_activities" =>
          last.body = load_activities(activitiesFile)
    /\ DOMAIN teacher_sessions \subseteq DOMAIN issued

\* a restart right after a signup answered 200: the email is still
\* enrolled and the token that signed it up is no longer a session
C12_Witness ==
    /\ last.op = "restart"
    /\ roundtrip.phase = "signed"
    /\ Enrolled(activities, roundtrip.name, roundtrip.email)
    /\ DOMAIN issued # {}
    /\ teacher_sessions = <<>>

\* a token issued before a restart is answered 401 after it
C12_WitnessStaleToken ==
    /\ Mutation /\ last.status = 401
    /\ last.token \in DOMAIN issued

\* the teacher records of a credential file, none when it is absent
RecordsOf(f) == IF f.exists THEN f.teachers ELSE <<>>

HasCredentials(f, username, password) ==
    \E i \in 1..Len(RecordsOf(f)) :
        /\ RecordsOf(f)[i].username = username
        /\ RecordsOf(f)[i].password = password

\* C13: a login with both fields present is answered 200 exactly when the
\* credential file as it is when the request arrives holds a record equal
\* to both fields, and 401 otherwise, whatever the file held at process
\* start; with the file absent it is answered 401.
C13_LoginReadsFileNow ==
    (/\ last.op = "admin_login"
     /\ ~Falsy(last.username) /\ ~Falsy(last.password))
    => /\ last.status = 200 <=>
             HasCredentials(before.teachersFile, last.username, last.password)
       /\ last.status = 401 <=>
             ~HasCredentials(before.teachersFile, last.username, last.password)
       /\ ~before.teachersFile.exists => last.status = 401

\* a login answered 200 with credentials the file did not hold at start
C13_Witness ==
    /\ last.op = "admin_login" /\ last.status = 200
    /\ ~HasCredentials(teachers_at_start, last.username, last.password)

\* a login answered 401 with credentials the file held at start: the record
\* was removed, its password changed or the file deleted
C13_WitnessRemoved ==
    /\ last.op = "admin_login" /\ last.status = 401
    /\ HasCredentials(teachers_at_start, last.username, last.password)

\* C17: a signup or unregister is answered 401 exactly when its token is
\* absent, empty or no key of the session registry, whatever the credential
\* file holds, and an edit of the credential file leaves the session
\* registry as it is: a token keeps authorizing after its teacher's record
\* is removed or changed.
C17_SessionsAloneAuthorize ==
    /\ Mutation =>
          (last.status = 401 <=>
              \/ Falsy(last.token)
              \/ last.token \notin DOMAIN before.teacher_sessions)
    /\ last.op = "edit_teachers" =>
          /\ teacher_sessions = before.teacher_sessions
          /\ activities = before.activities
    /\ \A t \in DOMAIN before.teacher_sessions :
          t \in DOMAIN teacher_sessions
              /\ teacher_sessions[t] = before.teacher_sessions[t]

\* a mutation answered 200 with the token of a teacher whose username is in
\* no record of the credential file any more
C17_Witness ==
    /\ Mutation /\ last.status = 200
    /\ ~\E i \in 1..Len(RecordsOf(before.teachersFile)) :
          RecordsOf(before.teachersFile)[i].username =
              before.teacher_sessions[last.token]

\* the same with the teacher's password changed in the file
C17_WitnessPasswordChanged ==
    /\ Mutation /\ last.status = 200
    /\ before.teacher_sessions[last.token] = "ms1"
    /\ HasCredentials(before.teachersFile, "ms1", "pw2")

\* the worker has changed the shared list (and has not answered an error)
Mutated(w) ==
    \/ workers[w].pc \in {"serialize", "write"}
    \/ workers[w].pc = "done" /\ workers[w].status = 200

\* the worker has written the file and answered 200
Written(w) == workers[w].pc = "done" /\ workers[w].status = 200

\* some worker has removed the email from the activity
Removed(name, email) ==
    \E v \in Workers :
        /\ workers[v].op = "unregister" /\ Mutated(v)
        /\ workers[v].name = name /\ workers[v].email = email

SignupsOf(w, u) ==
    /\ w # u
    /\ workers[w].op = "signup" /\ workers[u].op = "signup"
    /\ workers[w].name = workers[u].name

\* C14: when signups interleave step by step, an appended email is never
\* missing from the in-memory list, but the file holds the document of the
\* worker that wrote last, produced when that worker serialized: when that
\* was before another signup's append, the other email is missing from the
\* file although both were answered 200.
C14_LostUpdateInFile ==
    /\ \A w \in Workers :
          (/\ workers[w].op = "signup" /\ Mutated(w)
           /\ ~Removed(workers[w].name, workers[w].email))
          => Enrolled(activities, workers[w].name, workers[w].email)
    /\ (\E w \in Workers : Written(w)) =>
          \E w \in Workers :
              Written(w) /\ activitiesFile = FileOf(workers[w].buffer)
    /\ \A w, u \in Workers :
          (/\ SignupsOf(w, u) /\ Written(w) /\ Written(u)
           /\ workers[w].email # workers[u].email
           /\ ~Removed(workers[u].name, workers[u].email)
           /\ activitiesFile = FileOf(workers[w].buffer)
           /\ ~Enrolled(json_load(workers[w].buffer), workers[u].name,
                        workers[u].email))
          => /\ Enrolled(activities, workers[u].name, workers[u].email)
             /\ ~Enrolled(load_activities(activitiesFile), workers[u].name,
                          workers[u].email)

\* two signups for different emails on one activity were both answered 200,
\* no other request ran, both emails are in the in-memory list and one is
\* missing from the file
C14_Witness ==
    \E w, u, v \in Workers :
        /\ SignupsOf(w, u) /\ Written(w) /\ Written(u)
        /\ workers[w].email # workers[u].email
        /\ v \notin {w, u} /\ workers[v].pc = "idle"
        /\ Enrolled(activities, workers[w].name, workers[w].email)
        /\ Enrolled(activities, workers[u].name, workers[u].email)
        /\ ~Enrolled(load_activities(activitiesFile), workers[u].name,
                     workers[u].email)

\* C15: two signups for the same email and activity that both passed the
\* membership test before either appended both append and are answered 200,
\* and the email is in the list twice; an unregister that finds it twice
\* removes one occurrence and leaves the email enrolled.
C15_DuplicateByRace ==
    /\ \A w, u \in Workers :
          (/\ SignupsOf(w, u) /\ workers[w].email = workers[u].email
           /\ Mutated(w) /\ Mutated(u)
           /\ ~Removed(workers[w].name, workers[w].email))
          => list_count(Participants(activities, workers[w].name),
                        workers[w].email)
               = Cardinality({x \in Workers :
                                 /\ workers[x].op = "signup" /\ Mutated(x)
                                 /\ workers[x].name = workers[w].name
                                 /\ workers[x].email = workers[w].email})
    /\ \A w \in Workers :
          (workers[w].op = "signup" /\ workers[w].pc = "done") =>
              \/ workers[w].status = 200
              \/ workers[w].status \in {400, 401, 404} /\ workers[w].copies = 0
    /\ \A v \in Workers :
          (/\ workers[v].op = "unregister" /\ Mutated(v)
           /\ workers[v].copies = 2)
          => /\ list_count(Participants(activities, workers[v].name),
                           workers[v].email) = 1
             /\ Enrolled(activities, workers[v].name, workers[v].email)

\* both signups of one email were answered 200, then an unregister that
\* found the email twice was answered 200, and the email is still enrolled
C15_Witness ==
    \E w, u, v \in Workers :
        /\ SignupsOf(w, u) /\ workers[w].email = workers[u].email
        /\ Written(w) /\ Written(u)
        /\ workers[w].copies = 0 /\ workers[u].copies = 1
        /\ workers[v].op = "unregister" /\ Written(v)
        /\ workers[v].name = workers[w].name
        /\ workers[v].email = workers[w].email
        /\ workers[v].copies = 2
        /\ Enrolled(activities, workers[v].name, workers[v].email)

\* the at-most-once invariant is broken: an email is in a list twice
C15_WitnessTwice ==
    \E n \in DOMAIN activities, e \in Emails :
        list_count(Participants(activities, n), e) = 2

====
